---------------------------- MODULE Spec2Model ----------------------------
(***************************************************************************)
(* CRUD Lambda handlers of the repository: the TV actors handler           *)
(* (solutions/01-DeployLambdaUsingCDK/src/index.ts) and the four TV shows  *)
(* handlers (lambda-typescript, lambda-l1, lambda-l2, lambda-l3), each     *)
(* run against a key-value table keyed on the item's "id" attribute.       *)
(*                                                                         *)
(* A JavaScript object is a function whose DOMAIN is the set of its own    *)
(* properties; a property holding undefined is not in the DOMAIN, which is *)
(* how JSON.stringify and the table see it.                                *)
(***************************************************************************)
EXTENDS Integers, Sequences, FiniteSets, TLC

VARIABLES variant, env, table, now, history, running

vars == <<variant, env, table, now, history, running>>

(***************************************************************************)
(* Bounds of the model                                                     *)
(***************************************************************************)
\* the clock runs from 0 to MaxClock
MaxClock == 2

\* requests handled in one behaviour
MaxReqs == 2

\* requests of one behaviour in which requests overlap
MaxOverlapped == 3

\* requests in flight at a time
MaxRunning == 2


(***************************************************************************)
(* JavaScript objects                                                      *)
(***************************************************************************)
EmptyObj == [f \in {} |-> ""]

Has(o, f) == f \in DOMAIN o

\* { ...a, ...b }
Spread(a, b) ==
    [f \in (DOMAIN a) \cup (DOMAIN b) |-> IF f \in DOMAIN b THEN b[f] ELSE a[f]]

\* const { f1, f2, ...rest } = o
Rest(o, fs) == [f \in (DOMAIN o) \ fs |-> o[f]]

\* the properties fs of o that are not undefined
Pick(o, fs) == [f \in (DOMAIN o) \cap fs |-> o[f]]

\* !!o.f for a string property
StrTruthy(o, f) == Has(o, f) /\ o[f] # ""

\* !!o.f for a number property
NumTruthy(o, f) == Has(o, f) /\ o[f] # 0

(***************************************************************************)
(* The table: get, put, delete and scan on items keyed by item.id          *)
(***************************************************************************)
EmptyTable == [k \in {} |-> EmptyObj]

GetCommand(tbl, id) == IF id \in DOMAIN tbl THEN <<tbl[id]>> ELSE <<>>

PutCommand(tbl, item) ==
    [k \in (DOMAIN tbl) \cup {item["id"]} |-> IF k = item["id"] THEN item ELSE tbl[k]]

DeleteCommand(tbl, id) == [k \in (DOMAIN tbl) \ {id} |-> tbl[k]]

ScanCommand(tbl) ==
    [Items |-> {tbl[k] : k \in DOMAIN tbl}, Count |-> Cardinality(DOMAIN tbl)]

Call(cmd, key) == [cmd |-> cmd, key |-> key]

(***************************************************************************)
(* Responses                                                               *)
(***************************************************************************)
\* JSON.stringify(v) of an object
Stringify(v) == [kind |-> "object", value |-> v]

\* JSON.stringify(v) of an array (data.Items)
StringifyItems(items) == [kind |-> "array", value |-> items]

EmptyBody == [kind |-> "text", value |-> ""]

Message(parts) == Stringify([message |-> parts])

JsonHeaders == ("Content-Type" :> "application/json")

CorsHeaders == ("Access-Control-Allow-Origin" :> "*")

JsonCorsHeaders == JsonHeaders @@ CorsHeaders

Response(status, headers, body) ==
    [statusCode |-> status, headers |-> headers, body |-> body]

\* what a controller method returns, with the table it leaves and the calls it sent
Result(resp, tbl, calls) == [response |-> resp, table |-> tbl, calls |-> calls]

\* JSON.parse(event.body): ok is FALSE when it throws
ParseBody(body) ==
    IF body.kind = "json" THEN [ok |-> TRUE, value |-> body.value]
    ELSE [ok |-> FALSE, value |-> EmptyObj]

\* event.body || '{}'
BodyOrEmptyObject(body) ==
    IF body.kind \in {"null", "empty"} THEN [kind |-> "json", value |-> EmptyObj]
    ELSE body

\* !event.body
NoBody(body) == body.kind \in {"null", "empty"}

\* event.pathParameters?.id, as an object that has "id" or not
PathId(event) == Pick(event.pathParameters, {"id"})

(***************************************************************************)
(* TV actors: ActorsController                                             *)
(***************************************************************************)
ActorsListAll(tbl) ==
    LET result == ScanCommand(tbl) IN
    Result(Response(200, JsonCorsHeaders,
                    Stringify([actors |-> result.Items, count |-> result.Count])),
           tbl, <<Call("Scan", "")>>)

ActorsGetById(tbl, id) ==
    LET result == GetCommand(tbl, id) IN
    IF result = <<>>
    THEN Result(Response(404, JsonHeaders,
                         Message(<<"Actor with id ", id, " not found">>)),
                tbl, <<Call("Get", id)>>)
    ELSE Result(Response(200, JsonCorsHeaders, Stringify(result[1])),
                tbl, <<Call("Get", id)>>)

\* NewActor stamped with the epoch instead of the current time, and with the
\* nationality left out
NewActorStale(actor, t) ==
    Spread(Pick(actor, {"age"}),
           [id |-> actor["id"],
            name |-> actor["name"],
            knownFor |-> IF Has(actor, "knownFor") THEN actor["knownFor"] ELSE <<>>,
            isActive |-> IF Has(actor, "isActive") THEN actor["isActive"] ELSE TRUE,
            createdAt |-> 0,
            updatedAt |-> t])

\* NewActor with isActive: actor.isActive || true
NewActorAlwaysActive(actor, t) ==
    Spread(Pick(actor, {"age", "nationality"}),
           [id |-> actor["id"],
            name |-> actor["name"],
            knownFor |-> IF Has(actor, "knownFor") THEN actor["knownFor"] ELSE <<>>,
            isActive |-> TRUE,
            createdAt |-> t,
            updatedAt |-> t])

\* the newActor object of create
NewActor(actor, t) ==
    Spread(Pick(actor, {"age", "nationality"}),
           [id |-> actor["id"],
            name |-> actor["name"],
            knownFor |-> IF Has(actor, "knownFor") THEN actor["knownFor"] ELSE <<>>,
            isActive |-> IF Has(actor, "isActive") THEN actor["isActive"] ELSE TRUE,
            createdAt |-> t,
            updatedAt |-> t])

\* ActorsCreate that writes the entity before it answers 409
ActorsCreateOverwriting(tbl, actor, t) ==
    IF ~StrTruthy(actor, "id") \/ ~StrTruthy(actor, "name")
    THEN Result(Response(400, JsonHeaders, Message(<<"id and name are required fields">>)),
                tbl, <<>>)
    ELSE LET existingActor == GetCommand(tbl, actor["id"])
             newActor == NewActor(actor, t)
             calls == <<Call("Get", actor["id"]), Call("Put", newActor["id"])>>
         IN IF existingActor # <<>>
            THEN Result(Response(409, JsonHeaders,
                                 Message(<<"Actor with id ", actor["id"], " already exists">>)),
                        PutCommand(tbl, newActor), calls)
            ELSE Result(Response(201, JsonCorsHeaders, Stringify(newActor)),
                        PutCommand(tbl, newActor), calls)

ActorsCreate(tbl, actor, t) ==
    IF ~StrTruthy(actor, "id") \/ ~StrTruthy(actor, "name")
    THEN Result(Response(400, JsonHeaders, Message(<<"id and name are required fields">>)),
                tbl, <<>>)
    ELSE LET existingActor == GetCommand(tbl, actor["id"])
             newActor == NewActor(actor, t)
         IN IF existingActor # <<>>
            THEN Result(Response(409, JsonHeaders,
                                 Message(<<"Actor with id ", actor["id"], " already exists">>)),
                        tbl, <<Call("Get", actor["id"])>>)
            ELSE Result(Response(201, JsonCorsHeaders, Stringify(newActor)),
                        PutCommand(tbl, newActor),
                        <<Call("Get", actor["id"]), Call("Put", newActor["id"])>>)

\* UpdatedActor that strips nothing from updates before the spread
UpdatedActorUnstripped(existing, updates, t) ==
    Spread(Spread(existing, updates), [updatedAt |-> t])

\* UpdatedActor that leaves updatedAt as the spread made it
UpdatedActorUnstamped(existing, updates, t) ==
    LET allowedUpdates == Rest(updates, {"id", "createdAt"})
    IN Spread(existing, allowedUpdates)

\* the updatedActor object of update
UpdatedActor(existing, updates, t) ==
    LET allowedUpdates == Rest(updates, {"id", "createdAt"})
    IN Spread(Spread(existing, allowedUpdates), [updatedAt |-> t])

\* ActorsUpdate without its existence check: an upsert
ActorsUpdateUpsert(tbl, id, updates, t) ==
    LET existingActor == GetCommand(tbl, id)
        updatedActor == UpdatedActor(IF existingActor = <<>> THEN [id |-> id]
                                     ELSE existingActor[1], updates, t)
    IN Result(Response(200, JsonCorsHeaders, Stringify(updatedActor)),
              PutCommand(tbl, updatedActor),
              <<Call("Get", id), Call("Put", updatedActor["id"])>>)

ActorsUpdate(tbl, id, updates, t) ==
    LET existingActor == GetCommand(tbl, id) IN
    IF existingActor = <<>>
    THEN Result(Response(404, JsonHeaders,
                         Message(<<"Actor with id ", id, " not found">>)),
                tbl, <<Call("Get", id)>>)
    ELSE LET updatedActor == UpdatedActor(existingActor[1], updates, t)
         IN Result(Response(200, JsonCorsHeaders, Stringify(updatedActor)),
                   PutCommand(tbl, updatedActor),
                   <<Call("Get", id), Call("Put", updatedActor["id"])>>)

\* ActorsDelete that answers 204 without sending the delete
ActorsDeleteKeeps(tbl, id) ==
    LET existingActor == GetCommand(tbl, id) IN
    IF existingActor = <<>>
    THEN Result(Response(404, JsonHeaders,
                         Message(<<"Actor with id ", id, " not found">>)),
                tbl, <<Call("Get", id)>>)
    ELSE Result(Response(204, CorsHeaders, EmptyBody), tbl, <<Call("Get", id)>>)

ActorsDelete(tbl, id) ==
    LET existingActor == GetCommand(tbl, id) IN
    IF existingActor = <<>>
    THEN Result(Response(404, JsonHeaders,
                         Message(<<"Actor with id ", id, " not found">>)),
                tbl, <<Call("Get", id)>>)
    ELSE Result(Response(204, CorsHeaders, EmptyBody),
                DeleteCommand(tbl, id),
                <<Call("Get", id), Call("Delete", id)>>)

(***************************************************************************)
(* TV actors: handler                                                      *)
(***************************************************************************)
\* a handler's return value, with the controller operation it invoked
Invoked(op, result) ==
    [response |-> result.response, table |-> result.table,
     calls |-> result.calls, op |-> op]

\* a response the handler builds itself, with no operation invoked
Direct(resp, tbl) == [response |-> resp, table |-> tbl, calls |-> <<>>, op |-> "none"]

ActorIdRequired(tbl) ==
    Direct(Response(400, JsonHeaders, Message(<<"Actor ID is required">>)), tbl)

InternalServerError(tbl) ==
    Direct(Response(500, JsonHeaders, Message(<<"Internal server error">>)), tbl)

\* ActorsRoute with the PUT case missing its break, falling into DELETE
ActorsRoutePutFallsThrough(method, resource) ==
    CASE method = "GET" /\ resource = "/actors" -> "listAll"
      [] method = "GET" /\ resource = "/actors/{id}" -> "getById"
      [] method = "POST" /\ resource = "/actors" -> "create"
      [] method = "PUT" /\ resource = "/actors/{id}" -> "delete"
      [] method = "DELETE" /\ resource = "/actors/{id}" -> "delete"
      [] OTHER -> "default"

\* ActorsRoute that does not look at the method on the collection
ActorsRouteAnyMethod(method, resource) ==
    CASE resource = "/actors" /\ method # "POST" -> "listAll"
      [] method = "GET" /\ resource = "/actors/{id}" -> "getById"
      [] method = "POST" /\ resource = "/actors" -> "create"
      [] method = "PUT" /\ resource = "/actors/{id}" -> "update"
      [] method = "DELETE" /\ resource = "/actors/{id}" -> "delete"
      [] OTHER -> "default"

\* switch (`${method}:${resource}`)
ActorsRoute(method, resource) ==
    CASE method = "GET" /\ resource = "/actors" -> "listAll"
      [] method = "GET" /\ resource = "/actors/{id}" -> "getById"
      [] method = "POST" /\ resource = "/actors" -> "create"
      [] method = "PUT" /\ resource = "/actors/{id}" -> "update"
      [] method = "DELETE" /\ resource = "/actors/{id}" -> "delete"
      [] OTHER -> "default"

ActorsHandler(event, environment, tbl, t) ==
    IF ~StrTruthy(environment, "TABLE_NAME")
    THEN Direct(Response(500, JsonHeaders,
                         Message(<<"TABLE_NAME environment variable not set">>)), tbl)
    ELSE LET method == event.httpMethod
             resource == event.resource
             actorId == PathId(event)
             route == ActorsRoute(method, resource)
         IN CASE route = "listAll" -> Invoked("listAll", ActorsListAll(tbl))
              [] route = "getById" ->
                    IF ~StrTruthy(actorId, "id") THEN ActorIdRequired(tbl)
                    ELSE Invoked("getById", ActorsGetById(tbl, actorId["id"]))
              [] route = "create" ->
                    LET createData == ParseBody(BodyOrEmptyObject(event.body))
                    IN IF ~createData.ok THEN InternalServerError(tbl)
                       ELSE Invoked("create", ActorsCreate(tbl, createData.value, t))
              [] route = "update" ->
                    IF ~StrTruthy(actorId, "id") THEN ActorIdRequired(tbl)
                    ELSE LET updateData == ParseBody(BodyOrEmptyObject(event.body))
                         IN IF ~updateData.ok THEN InternalServerError(tbl)
                            ELSE Invoked("update",
                                         ActorsUpdate(tbl, actorId["id"], updateData.value, t))
              [] route = "delete" ->
                    IF ~StrTruthy(actorId, "id") THEN ActorIdRequired(tbl)
                    ELSE Invoked("delete", ActorsDelete(tbl, actorId["id"]))
              [] OTHER ->
                    Direct(Response(400, JsonHeaders,
                                    Message(<<"Unsupported operation: ", method, " ", resource>>)),
                           tbl)

(***************************************************************************)
(* What the store client does with a request it cannot serve: a call on an *)
(* undefined table name, or a key that is undefined or the empty string,   *)
(* is rejected, the promise is rejected and nothing is read or written.    *)
(***************************************************************************)
\* result is what the operation does on a named table; without one its first
\* call is rejected and control passes to the handler's catch (resp500)
OnTable(environment, result, tbl, resp500) ==
    IF StrTruthy(environment, "TABLE_NAME") \/ result.calls = <<>>
    THEN result
    ELSE Result(resp500, tbl, <<result.calls[1]>>)

\* a value that may be null: the sequence of at most one element
Null == <<>>

\* /\/tvshows\/[\w-]+/ on a path given as its segments
MatchesItemPath(path) ==
    \E i \in 1..(Len(path) - 1) : path[i] = "tvshows" /\ path[i + 1] # ""

\* path === '/tvshows'
IsCollectionPath(path) == path = <<"tvshows">>

(***************************************************************************)
(* TV shows, lambda-typescript: TVShowsController and handler              *)
(***************************************************************************)
TsListAll(tbl) ==
    LET data == ScanCommand(tbl) IN
    Result(Response(200, JsonHeaders, StringifyItems(data.Items)),
           tbl, <<Call("Scan", "")>>)

TsGetById(tbl, id) ==
    LET data == GetCommand(tbl, id) IN
    IF data = <<>>
    THEN Result(Response(404, JsonHeaders, Message(<<"TV Show not found">>)),
                tbl, <<Call("Get", id)>>)
    ELSE Result(Response(200, JsonHeaders, Stringify(data[1])),
                tbl, <<Call("Get", id)>>)

\* the newShow object of create
TsNewShow(show, t) ==
    Spread([id |-> IF StrTruthy(show, "id") THEN show["id"] ELSE ToString(t),
            title |-> IF StrTruthy(show, "title") THEN show["title"] ELSE "Untitled Show",
            createdAt |-> t,
            updatedAt |-> t],
           Pick(show, {"genre", "year", "seasons", "rating"}))

TsCreate(tbl, show, t) ==
    LET newShow == TsNewShow(show, t) IN
    Result(Response(201, JsonHeaders, Stringify(newShow)),
           PutCommand(tbl, newShow),
           <<Call("Put", newShow["id"])>>)

\* the show object of update after its three assignments
TsUpdatedShow(existing, id, show, t) ==
    Spread(Spread(Rest(show, {"createdAt"}), Pick(existing, {"createdAt"})),
           [id |-> id, updatedAt |-> t])

TsUpdate(tbl, id, show, t) ==
    LET existingData == GetCommand(tbl, id) IN
    IF existingData = <<>>
    THEN Result(Response(404, JsonHeaders, Message(<<"TV Show not found">>)),
                tbl, <<Call("Get", id)>>)
    ELSE LET updated == TsUpdatedShow(existingData[1], id, show, t)
         IN Result(Response(200, JsonHeaders, Stringify(updated)),
                   PutCommand(tbl, updated),
                   <<Call("Get", id), Call("Put", updated["id"])>>)

TsDelete(tbl, id) ==
    LET existingData == GetCommand(tbl, id) IN
    IF existingData = <<>>
    THEN Result(Response(404, JsonHeaders, Message(<<"TV Show not found">>)),
                tbl, <<Call("Get", id)>>)
    ELSE Result(Response(204, JsonHeaders, EmptyBody),
                DeleteCommand(tbl, id),
                <<Call("Get", id), Call("Delete", id)>>)

\* the catch of the handler: the error's own message goes into the body
TsCaught(errorMessage) ==
    Response(500, JsonHeaders,
             Stringify([message |-> <<"Internal server error">>, error |-> errorMessage]))

TsHandler(event, environment, tbl, t) ==
    LET method == event.httpMethod
        path == event.path
        id == PathId(event)
        run(op, result) ==
            Invoked(op, OnTable(environment, result, tbl, TsCaught("store rejected the call")))
    IN CASE method = "GET" /\ IsCollectionPath(path) -> run("listAll", TsListAll(tbl))
         [] method = "GET" /\ ~IsCollectionPath(path) /\ StrTruthy(id, "id") ->
               run("getById", TsGetById(tbl, id["id"]))
         [] method = "POST" /\ IsCollectionPath(path) ->
               LET createData == ParseBody(BodyOrEmptyObject(event.body))
               IN IF ~createData.ok THEN Direct(TsCaught("JSON.parse failed"), tbl)
                  ELSE run("create", TsCreate(tbl, createData.value, t))
         [] method = "PUT" /\ StrTruthy(id, "id") ->
               LET updateData == ParseBody(BodyOrEmptyObject(event.body))
               IN IF ~updateData.ok THEN Direct(TsCaught("JSON.parse failed"), tbl)
                  ELSE run("update", TsUpdate(tbl, id["id"], updateData.value, t))
         [] method = "DELETE" /\ StrTruthy(id, "id") ->
               run("delete", TsDelete(tbl, id["id"]))
         [] OTHER ->
               Direct(Response(400, JsonHeaders, Message(<<"Invalid request">>)), tbl)

(***************************************************************************)
(* TV shows, lambda-l3: TVShowsController and handler                      *)
(***************************************************************************)
NoHeaders == EmptyObj

L3ListAll(tbl) ==
    LET data == ScanCommand(tbl) IN
    Result(Response(200, NoHeaders, StringifyItems(data.Items)),
           tbl, <<Call("Scan", "")>>)

\* L3GetById that answers with the id and title of the item only
L3GetByIdSummary(tbl, id) ==
    LET data == GetCommand(tbl, id) IN
    IF data = <<>>
    THEN Result(Response(404, NoHeaders, Message(<<"TV show not found">>)),
                tbl, <<Call("Get", id)>>)
    ELSE Result(Response(200, NoHeaders, Stringify(Pick(data[1], {"id", "title"}))),
                tbl, <<Call("Get", id)>>)

L3GetById(tbl, id) ==
    LET data == GetCommand(tbl, id) IN
    IF data = <<>>
    THEN Result(Response(404, NoHeaders, Message(<<"TV show not found">>)),
                tbl, <<Call("Get", id)>>)
    ELSE Result(Response(200, NoHeaders, Stringify(data[1])),
                tbl, <<Call("Get", id)>>)

\* the Item of the PutCommand of create
L3Item(tvShow, t) ==
    [id |-> tvShow["id"],
     title |-> tvShow["title"],
     genre |-> IF StrTruthy(tvShow, "genre") THEN tvShow["genre"] ELSE "",
     year |-> IF NumTruthy(tvShow, "year") THEN <<tvShow["year"]>> ELSE Null,
     rating |-> IF NumTruthy(tvShow, "rating") THEN <<tvShow["rating"]>> ELSE Null,
     createdAt |-> t]

L3Create(tbl, tvShow, t) ==
    IF ~StrTruthy(tvShow, "id") \/ ~StrTruthy(tvShow, "title")
    THEN Result(Response(400, NoHeaders, Message(<<"ID and title are required">>)),
                tbl, <<>>)
    ELSE Result(Response(201, NoHeaders,
                         Stringify([message |-> <<"TV show created successfully">>,
                                    id |-> tvShow["id"]])),
                PutCommand(tbl, L3Item(tvShow, t)),
                <<Call("Put", tvShow["id"])>>)

L3DeleteById(tbl, id) ==
    Result(Response(200, NoHeaders, Message(<<"TV show deleted successfully">>)),
           DeleteCommand(tbl, id),
           <<Call("Delete", id)>>)

L3Handler(event, environment, tbl, t) ==
    IF ~StrTruthy(environment, "TABLE_NAME")
    THEN Direct(Response(500, NoHeaders, Message(<<"Table name is not configured">>)), tbl)
    ELSE LET method == event.httpMethod
             path == event.path
             id == PathId(event)
             idRequired == Direct(Response(400, NoHeaders, Message(<<"ID is required">>)), tbl)
         IN CASE method = "GET" /\ IsCollectionPath(path) ->
                    Invoked("listAll", L3ListAll(tbl))
              [] method = "GET" /\ ~IsCollectionPath(path) /\ MatchesItemPath(path) ->
                    IF ~StrTruthy(id, "id") THEN idRequired
                    ELSE Invoked("getById", L3GetById(tbl, id["id"]))
              [] method = "POST" /\ IsCollectionPath(path) ->
                    IF NoBody(event.body)
                    THEN Direct(Response(400, NoHeaders,
                                         Message(<<"Request body is required">>)), tbl)
                    ELSE LET tvShow == ParseBody(event.body)
                         IN IF ~tvShow.ok
                            THEN Direct(Response(500, NoHeaders,
                                                 Message(<<"Internal server error">>)), tbl)
                            ELSE Invoked("create", L3Create(tbl, tvShow.value, t))
              [] method = "DELETE" /\ MatchesItemPath(path) ->
                    IF ~StrTruthy(id, "id") THEN idRequired
                    ELSE Invoked("deleteById", L3DeleteById(tbl, id["id"]))
              [] OTHER ->
                    Direct(Response(400, NoHeaders, Message(<<"Unsupported operation">>)), tbl)

(***************************************************************************)
(* TV shows, lambda-l1: handler                                            *)
(***************************************************************************)
\* the Item of the PutCommand of the POST branch
L1Item(tvShow, t) ==
    [id |-> tvShow["id"],
     title |-> tvShow["title"],
     genre |-> IF StrTruthy(tvShow, "genre") THEN tvShow["genre"] ELSE "",
     year |-> IF NumTruthy(tvShow, "year") THEN <<tvShow["year"]>> ELSE Null,
     rating |-> IF NumTruthy(tvShow, "rating") THEN <<tvShow["rating"]>> ELSE Null,
     createdAt |-> t]

L1Handler(event, environment, tbl, t) ==
    LET method == event.httpMethod
        path == event.path
        id == PathId(event)
        caught == Response(500, NoHeaders, Message(<<"Internal server error">>))
        idRequired == Direct(Response(400, NoHeaders, Message(<<"ID is required">>)), tbl)
        run(op, result) == Invoked(op, OnTable(environment, result, tbl, caught))
    IN CASE method = "GET" /\ IsCollectionPath(path) ->
               run("listAll",
                   Result(Response(200, NoHeaders, StringifyItems(ScanCommand(tbl).Items)),
                          tbl, <<Call("Scan", "")>>))
         [] method = "GET" /\ ~IsCollectionPath(path) /\ MatchesItemPath(path) ->
               IF ~StrTruthy(id, "id") THEN idRequired
               ELSE LET data == GetCommand(tbl, id["id"])
                    IN run("getById",
                           IF data = <<>>
                           THEN Result(Response(404, NoHeaders,
                                                Message(<<"TV show not found">>)),
                                       tbl, <<Call("Get", id["id"])>>)
                           ELSE Result(Response(200, NoHeaders, Stringify(data[1])),
                                       tbl, <<Call("Get", id["id"])>>))
         [] method = "POST" /\ IsCollectionPath(path) ->
               IF NoBody(event.body)
               THEN Direct(Response(400, NoHeaders,
                                    Message(<<"Request body is required">>)), tbl)
               ELSE LET tvShow == ParseBody(event.body)
                    IN IF ~tvShow.ok THEN Direct(caught, tbl)
                       ELSE IF ~StrTruthy(tvShow.value, "id") \/ ~StrTruthy(tvShow.value, "title")
                       THEN Invoked("create",
                                    Result(Response(400, NoHeaders,
                                                    Message(<<"ID and title are required">>)),
                                           tbl, <<>>))
                       ELSE run("create",
                                Result(Response(201, NoHeaders,
                                                Stringify([message |-> <<"TV show created successfully">>,
                                                           id |-> tvShow.value["id"]])),
                                       PutCommand(tbl, L1Item(tvShow.value, t)),
                                       <<Call("Put", tvShow.value["id"])>>))
         [] method = "DELETE" /\ MatchesItemPath(path) ->
               IF ~StrTruthy(id, "id") THEN idRequired
               ELSE run("deleteById",
                        Result(Response(200, NoHeaders,
                                        Message(<<"TV show deleted successfully">>)),
                               DeleteCommand(tbl, id["id"]),
                               <<Call("Delete", id["id"])>>))
         [] OTHER ->
               Direct(Response(400, NoHeaders, Message(<<"Unsupported operation">>)), tbl)

(***************************************************************************)
(* TV shows, lambda-l2: handler and its four functions                     *)
(***************************************************************************)
listTVShows(tbl) ==
    LET data == ScanCommand(tbl) IN
    Result(Response(200, NoHeaders, StringifyItems(data.Items)),
           tbl, <<Call("Scan", "")>>)

\* id is event.pathParameters?.id!, which may be undefined
getTVShow(tbl, id) ==
    LET data == GetCommand(tbl, id["id"]) IN
    IF data = <<>>
    THEN Result(Response(404, NoHeaders, Message(<<"TV show not found">>)),
                tbl, <<Call("Get", id["id"])>>)
    ELSE Result(Response(200, NoHeaders, Stringify(data[1])),
                tbl, <<Call("Get", id["id"])>>)

\* the Item of the PutCommand of createTVShow
L2Item(tvShow, t) ==
    [id |-> tvShow["id"],
     title |-> tvShow["title"],
     genre |-> IF StrTruthy(tvShow, "genre") THEN tvShow["genre"] ELSE "",
     year |-> IF NumTruthy(tvShow, "year") THEN <<tvShow["year"]>> ELSE Null,
     rating |-> IF NumTruthy(tvShow, "rating") THEN <<tvShow["rating"]>> ELSE Null,
     createdAt |-> t]

\* ok is FALSE when JSON.parse throws out of the function
createTVShow(tbl, body, t) ==
    IF NoBody(body)
    THEN Result(Response(400, NoHeaders, Message(<<"Request body is required">>)),
                tbl, <<>>)
    ELSE LET tvShow == ParseBody(body).value IN
         IF ~StrTruthy(tvShow, "id") \/ ~StrTruthy(tvShow, "title")
         THEN Result(Response(400, NoHeaders, Message(<<"ID and title are required">>)),
                     tbl, <<>>)
         ELSE Result(Response(201, NoHeaders,
                              Stringify([message |-> <<"TV show created successfully">>,
                                         id |-> tvShow["id"]])),
                     PutCommand(tbl, L2Item(tvShow, t)),
                     <<Call("Put", tvShow["id"])>>)

deleteTVShow(tbl, id) ==
    Result(Response(200, NoHeaders, Message(<<"TV show deleted successfully">>)),
           DeleteCommand(tbl, id["id"]),
           <<Call("Delete", id["id"])>>)

L2Handler(event, environment, tbl, t) ==
    LET method == event.httpMethod
        path == event.path
        id == PathId(event)
        caught == Response(500, NoHeaders, Message(<<"Internal server error">>))
        run(op, result) == Invoked(op, OnTable(environment, result, tbl, caught))
        \* a Get or Delete whose Key.id is undefined or "" is rejected by the store
        rejected(op, cmd) == Invoked(op, Result(caught, tbl, <<Call(cmd, "")>>))
    IN CASE method = "GET" /\ IsCollectionPath(path) -> run("listTVShows", listTVShows(tbl))
         [] method = "GET" /\ ~IsCollectionPath(path) /\ MatchesItemPath(path) ->
               IF ~StrTruthy(id, "id") THEN rejected("getTVShow", "Get")
               ELSE run("getTVShow", getTVShow(tbl, id))
         [] method = "POST" /\ IsCollectionPath(path) ->
               IF ~NoBody(event.body) /\ ~ParseBody(event.body).ok
               THEN Invoked("createTVShow", Result(caught, tbl, <<>>))
               ELSE run("createTVShow", createTVShow(tbl, event.body, t))
         [] method = "DELETE" /\ MatchesItemPath(path) ->
               IF ~StrTruthy(id, "id") THEN rejected("deleteTVShow", "Delete")
               ELSE run("deleteTVShow", deleteTVShow(tbl, id))
         [] OTHER ->
               Direct(Response(400, NoHeaders, Message(<<"Unsupported operation">>)), tbl)

(***************************************************************************)
(* The handler each stack deploys                                          *)
(***************************************************************************)
Variants == {"actors", "ts", "l1", "l2", "l3"}

Handler(v, event, environment, tbl, t) ==
    CASE v = "actors" -> ActorsHandler(event, environment, tbl, t)
      [] v = "ts" -> TsHandler(event, environment, tbl, t)
      [] v = "l1" -> L1Handler(event, environment, tbl, t)
      [] v = "l2" -> L2Handler(event, environment, tbl, t)
      [] v = "l3" -> L3Handler(event, environment, tbl, t)

\* the operation of the routing table that a controller method implements
Operation(op) ==
    CASE op \in {"listAll", "listTVShows"} -> "List"
      [] op \in {"getById", "getTVShow"} -> "GetByID"
      [] op \in {"create", "createTVShow"} -> "Create"
      [] op = "update" -> "Update"
      [] op \in {"delete", "deleteById", "deleteTVShow"} -> "Delete"
      [] OTHER -> "none"

(***************************************************************************)
(* Store faults: a send() whose promise is rejected. Every send is awaited *)
(* inside a try; the catch that receives the error returns the response.   *)
(***************************************************************************)
\* no call faults
NoFault == [at |-> 0, message |-> ""]

\* the response of the catch that receives an error thrown under op
Caught(v, op, errorMessage) ==
    CASE v = "actors" ->
            Response(500, JsonHeaders,
                     Message(CASE op = "listAll" -> <<"Failed to retrieve actors">>
                               [] op = "getById" -> <<"Failed to retrieve actor">>
                               [] op = "create" -> <<"Failed to create actor">>
                               [] op = "update" -> <<"Failed to update actor">>
                               [] op = "delete" -> <<"Failed to delete actor">>
                               [] OTHER -> <<"Internal server error">>))
      [] v = "ts" -> TsCaught(errorMessage)
      [] OTHER -> Response(500, NoHeaders, Message(<<"Internal server error">>))

\* FaultyHandler whose store client sends the faulting call again, with success
FaultyHandlerRetrying(v, event, environment, tbl, t, fault) ==
    Handler(v, event, environment, tbl, t)

\* the handler when the fault.at-th call it sends faults with fault.message:
\* the calls before it are served, the faulting call changes nothing, and
\* control passes to the catch; a write is served only if it precedes the fault
FaultyHandler(v, event, environment, tbl, t, fault) ==
    LET out == Handler(v, event, environment, tbl, t)
        served == SubSeq(out.calls, 1, fault.at - 1)
        wrote == \E n \in 1..Len(served) : served[n].cmd \in {"Put", "Delete"}
    IN IF fault.at \in 1..Len(out.calls)
       THEN [response |-> Caught(v, out.op, fault.message),
             table |-> IF wrote THEN out.table ELSE tbl,
             calls |-> SubSeq(out.calls, 1, fault.at),
             op |-> out.op]
       ELSE out

(***************************************************************************)
(* Events: what API Gateway, or a direct invocation, hands the handler     *)
(***************************************************************************)
Ids == {"a", "b"}

Methods == {"GET", "POST", "PUT", "DELETE", "PATCH"}

NullBody == [kind |-> "null", value |-> EmptyObj]

MalformedBody == [kind |-> "malformed", value |-> EmptyObj]

JsonBody(payload) == [kind |-> "json", value |-> payload]

Route(resource, path, pathParameters) ==
    [resource |-> resource, path |-> path, pathParameters |-> pathParameters]

ActorsRoutes ==
    {Route("/actors", <<"actors">>, EmptyObj)}
    \cup {Route("/actors/{id}", <<"actors", i>>, [id |-> i]) : i \in Ids}
    \cup {Route("/actors/{id}", <<"actors", "">>, EmptyObj),
          Route("/actors/{id}", <<"actors", "">>, [id |-> ""]),
          Route("/actors/{id}/shows", <<"actors", "a", "shows">>, [id |-> "a"])}

TvRoutes ==
    {Route("/tvshows", <<"tvshows">>, EmptyObj)}
    \cup {Route("/tvshows/{id}", <<"tvshows", i>>, [id |-> i]) : i \in Ids}
    \cup {Route("/tvshows/{id}", <<"tvshows", "a">>, EmptyObj),
          Route("/tvshows/{id}", <<"tvshows", "">>, [id |-> ""]),
          Route("/tvshows/{id}/cast", <<"tvshows", "a", "cast">>, [id |-> "a"])}

ActorPayloads ==
    {EmptyObj,
     [id |-> "a", name |-> "X"],
     [id |-> "a"],
     [id |-> "", name |-> "X"],
     [id |-> "a", name |-> ""],
     [id |-> "a", name |-> "Y", age |-> 41, nationality |-> "UK",
      knownFor |-> <<"s">>, isActive |-> FALSE],
     [name |-> "Y"],
     [age |-> 31, nationality |-> "US"],
     [id |-> "b", name |-> "Y", createdAt |-> 7, updatedAt |-> 7]}

TvPayloads ==
    {EmptyObj,
     [id |-> "a", title |-> "X"],
     [id |-> "a"],
     [id |-> "", title |-> "X"],
     [id |-> "a", title |-> ""],
     [id |-> "a", title |-> "Y", genre |-> "crime", year |-> 2008,
      seasons |-> 5, rating |-> 9],
     [title |-> "Y"],
     [genre |-> "comedy", rating |-> 0],
     [id |-> "b", title |-> "Y", createdAt |-> 7, updatedAt |-> 7]}

Routes(v) == IF v = "actors" THEN ActorsRoutes ELSE TvRoutes

Payloads(v) == IF v = "actors" THEN ActorPayloads ELSE TvPayloads

Bodies(v) == {NullBody, MalformedBody} \cup {JsonBody(p) : p \in Payloads(v)}

\* event.path as the string it is: "/" before each segment
RECURSIVE PathString(_)
PathString(path) ==
    IF path = <<>> THEN "" ELSE "/" \o Head(path) \o PathString(Tail(path))

Event(method, route, body) ==
    [httpMethod |-> method, resource |-> route.resource, path |-> route.path,
     pathParameters |-> route.pathParameters, body |-> body]

\* The handlers read event.body only on a POST of the collection and on a PUT
\* that carries a path id; every other event is given with a null body.
ReadsBody(method, route) ==
    \/ method = "POST" /\ Len(route.path) = 1
    \/ method = "PUT" /\ StrTruthy(route.pathParameters, "id")

\* the collection and the item "a": where every payload is sent
IsMainRoute(route) ==
    \/ Len(route.path) = 1
    \/ Len(route.path) = 2 /\ route.pathParameters = [id |-> "a"]

\* GET, PUT and DELETE are sent to every route, the other methods to the
\* main routes
RoutesOf(v, method) ==
    IF method \in {"GET", "PUT", "DELETE"} THEN Routes(v)
    ELSE {r \in Routes(v) : IsMainRoute(r)}

\* on the other routes one payload stands for all
BodiesOn(v, route) ==
    IF IsMainRoute(route) THEN Bodies(v)
    ELSE {JsonBody(p) : p \in {q \in Payloads(v) : DOMAIN q \in {{"name"}, {"title"}}}}

Events(v, method) ==
    {Event(method, r, NullBody) : r \in RoutesOf(v, method)}
    \cup UNION {{Event(method, r, b) : b \in BodiesOn(v, r)} :
                    r \in {x \in RoutesOf(v, method) : ReadsBody(method, x)}}

(***************************************************************************)
(* State: the stack's handler and environment, the table, the clock, and   *)
(* the requests handled so far with their responses                        *)
(***************************************************************************)
\* what each stack sets (environment: { TABLE_NAME: table.tableName })
DeployedEnvironment == [TABLE_NAME |-> "table"]

SeedPayload(v, i) ==
    IF v = "actors" THEN [id |-> i, name |-> "X", age |-> 30]
    ELSE [id |-> i, title |-> "X", genre |-> "drama"]

\* the table after a POST of each identifier of ids at time 0
RECURSIVE SeedTable(_, _)
SeedTable(v, ids) ==
    IF ids = {} THEN EmptyTable
    ELSE LET i == CHOOSE x \in ids : TRUE
             post == Event("POST", CHOOSE r \in Routes(v) : r.pathParameters = EmptyObj
                                                           /\ Len(r.path) = 1,
                           JsonBody(SeedPayload(v, i)))
         IN Handler(v, post, DeployedEnvironment, SeedTable(v, ids \ {i}), 0).table

\* the identifiers stored before the first request
Seeds == {{}, {"a"}}

Init ==
    /\ variant \in Variants
    /\ env = DeployedEnvironment
    /\ table \in {SeedTable(variant, ids) : ids \in Seeds}
    /\ now = 0
    /\ history = <<>>
    /\ running = <<>>

\* the handler runs on event; the clock ticks, or not, before its new Date();
\* fault says which of its store calls faults, if any
Run(event, tick, fault) ==
    LET t == IF tick THEN now + 1 ELSE now
        out == FaultyHandler(variant, event, env, table, t, fault)
    IN /\ t <= MaxClock
       /\ table' = out.table
       /\ history' = Append(history,
                            [event |-> event, startedAt |-> now, before |-> table,
                             op |-> out.op, calls |-> out.calls,
                             response |-> out.response, fault |-> fault])
       /\ now' = t
       /\ UNCHANGED <<variant, env, running>>

\* the handler runs on event against a store that serves every call
Handle(event, tick) == Run(event, tick, NoFault)

Get ==
    /\ Len(history) < MaxReqs
    /\ \E e \in Events(variant, "GET"), tick \in BOOLEAN : Handle(e, tick)

Post ==
    /\ Len(history) < MaxReqs
    /\ \E e \in Events(variant, "POST"), tick \in BOOLEAN : Handle(e, tick)

Put ==
    /\ Len(history) < MaxReqs
    /\ \E e \in Events(variant, "PUT"), tick \in BOOLEAN : Handle(e, tick)

Delete ==
    /\ Len(history) < MaxReqs
    /\ \E e \in Events(variant, "DELETE"), tick \in BOOLEAN : Handle(e, tick)

Patch ==
    /\ Len(history) < MaxReqs
    /\ \E e \in Events(variant, "PATCH"), tick \in BOOLEAN : Handle(e, tick)

Next == Get \/ Post \/ Put \/ Delete \/ Patch

Spec == Init /\ [][Next]_vars

\* the actors stack alone
ActorsInit == Init /\ variant = "actors"

ActorsSpec == ActorsInit /\ [][Next]_vars

\* the stacks whose handler has an update
UpdateInit == Init /\ variant \in {"actors", "ts"}

UpdateSpec == UpdateInit /\ [][Next]_vars

(***************************************************************************)
(* The run of the local test script against the actors handler: create an  *)
(* actor, read it, update it, delete it, read it again, one request after  *)
(* the other and nothing in between                                        *)
(***************************************************************************)
CollectionRoute(v) == CHOOSE r \in Routes(v) : Len(r.path) = 1

ItemRoute(v, i) ==
    CHOOSE r \in Routes(v) : Len(r.path) = 2 /\ r.pathParameters = [id |-> i]

\* the id of the actor the script created
ScriptId == history[1].event.body.value["id"]

ScriptCreate ==
    /\ Len(history) = 0
    /\ \E p \in ActorPayloads, tick \in BOOLEAN :
          /\ StrTruthy(p, "id") /\ StrTruthy(p, "name")
          /\ p["id"] \notin DOMAIN table
          /\ Handle(Event("POST", CollectionRoute(variant), JsonBody(p)), tick)

ScriptGet ==
    /\ Len(history) \in {1, 4}
    /\ \E tick \in BOOLEAN :
          Handle(Event("GET", ItemRoute(variant, ScriptId), NullBody), tick)

ScriptUpdate ==
    /\ Len(history) = 2
    /\ \E p \in ActorPayloads, tick \in BOOLEAN :
          /\ StrTruthy(p, "name")
          /\ Handle(Event("PUT", ItemRoute(variant, ScriptId), JsonBody(p)), tick)

ScriptDelete ==
    /\ Len(history) = 3
    /\ \E tick \in BOOLEAN :
          Handle(Event("DELETE", ItemRoute(variant, ScriptId), NullBody), tick)

ScriptNext == ScriptCreate \/ ScriptGet \/ ScriptUpdate \/ ScriptDelete

ScriptSpec == ActorsInit /\ [][ScriptNext]_vars

(***************************************************************************)
(* Reads only, of a table as any one request may have left it              *)
(***************************************************************************)
AllEvents(v) == UNION {Events(v, m) : m \in Methods}

\* the tables one request, handled at time 0 or 1, leaves of a seeded table
WrittenTables(v) ==
    {Handler(v, e, DeployedEnvironment, SeedTable(v, ids), t).table :
        e \in AllEvents(v), ids \in Seeds, t \in {0, 1}}

ReadInit ==
    /\ variant \in Variants
    /\ env = DeployedEnvironment
    /\ table \in WrittenTables(variant)
    /\ now = 1
    /\ history = <<>>
    /\ running = <<>>

ReadSpec == ReadInit /\ [][Get]_vars

(***************************************************************************)
(* A function deployed without TABLE_NAME in its environment               *)
(***************************************************************************)
\* process.env without TABLE_NAME
BareEnvironment == EmptyObj

UnconfiguredInit ==
    /\ variant \in Variants
    /\ env = BareEnvironment
    /\ table \in {SeedTable(variant, ids) : ids \in Seeds}
    /\ now = 0
    /\ history = <<>>
    /\ running = <<>>

UnconfiguredSpec == UnconfiguredInit /\ [][Next]_vars

(***************************************************************************)
(* A store that may fault: requests on the collection and on the item "a", *)
(* each served or meeting a fault at one of its store calls                *)
(***************************************************************************)
FaultMessages == {"ThrottlingException", "socket hang up"}

\* the first or the second call of a request faults
Faults == {[at |-> k, message |-> m] : k \in {1, 2}, m \in FaultMessages}

FaultEvents(v) ==
    {Event(m, r, NullBody) : m \in {"GET", "DELETE"},
                             r \in {CollectionRoute(v), ItemRoute(v, "a")}}
    \cup {Event("POST", CollectionRoute(v), JsonBody(SeedPayload(v, i))) : i \in Ids}
    \cup {Event("PUT", ItemRoute(v, "a"), JsonBody(SeedPayload(v, "b")))}

\* a request is served by the store
Serve ==
    /\ Len(history) < MaxReqs
    /\ \E e \in FaultEvents(variant), tick \in BOOLEAN : Handle(e, tick)

\* a request meets a fault at a call it does send
Fault ==
    /\ Len(history) < MaxReqs
    /\ \E e \in FaultEvents(variant), tick \in BOOLEAN, fault \in Faults :
          /\ fault.at <= Len(Handler(variant, e, env, table, now).calls)
          /\ Run(e, tick, fault)

FaultNext == Serve \/ Fault

FaultSpec == Init /\ [][FaultNext]_vars

(***************************************************************************)
(* An actor is created and then updated over and over, with any body       *)
(***************************************************************************)
Edit ==
    /\ Len(history) \in 1..MaxReqs
    /\ \E b \in Bodies(variant), tick \in BOOLEAN :
          Handle(Event("PUT", ItemRoute(variant, ScriptId), b), tick)

EditNext == ScriptCreate \/ Edit

EditSpec == ActorsInit /\ [][EditNext]_vars

(***************************************************************************)
(* Overlapping requests to the actors handler: an operation that sends two *)
(* store calls awaits the first, and other requests run before it resumes  *)
(***************************************************************************)
ConcurrentEvents(v) ==
    {Event("POST", CollectionRoute(v), JsonBody(p)) :
        p \in {q \in Payloads(v) : StrTruthy(q, "id") /\ q["id"] = "a" /\ StrTruthy(q, "name")}}
    \cup {Event("PUT", ItemRoute(v, "a"), JsonBody(p)) :
            p \in {q \in Payloads(v) : DOMAIN q \in {{"name"}, {"age", "nationality"}}
                                       \/ Has(q, "createdAt")}}
    \cup {Event(m, ItemRoute(v, "a"), NullBody) : m \in {"GET", "DELETE"}}

\* the table once the second store call of result, a put or a delete with
\* no condition, is served on tbl
StoreWrite(tbl, result) ==
    LET write == result.calls[2]
    IN IF write.cmd = "Put" THEN PutCommand(tbl, result.table[write.key])
       ELSE DeleteCommand(tbl, write.key)

\* StoreWrite under a condition: the entry is as the request's get read it
StoreWriteIfUnchanged(tbl, result, before) ==
    LET key == result.calls[2].key
    IN IF GetCommand(tbl, key) = GetCommand(before, key) THEN StoreWrite(tbl, result)
       ELSE tbl

\* the write of a request whose get read the table before
Write(tbl, result, before) == StoreWrite(tbl, result)

\* a request arrives and its get is served: the handler awaits
Arrive ==
    /\ Len(history) + Len(running) < MaxOverlapped
    /\ Len(running) < MaxRunning
    /\ \E e \in ConcurrentEvents(variant) :
          /\ Len(Handler(variant, e, env, table, now).calls) = 2
          /\ running' = Append(running, [event |-> e, startedAt |-> now, before |-> table])
          /\ UNCHANGED <<variant, env, table, now, history>>

\* a request in flight resumes with what its get read: it takes the time,
\* sends its write and returns
Resume ==
    \E k \in 1..Len(running), tick \in BOOLEAN :
        LET r == running[k]
            t == IF tick THEN now + 1 ELSE now
            out == Handler(variant, r.event, env, r.before, t)
        IN /\ t <= MaxClock
           /\ table' = Write(table, out, r.before)
           /\ history' = Append(history,
                                [event |-> r.event, startedAt |-> r.startedAt,
                                 before |-> r.before, op |-> out.op, calls |-> out.calls,
                                 response |-> out.response, fault |-> NoFault])
           /\ running' = SubSeq(running, 1, k - 1) \o SubSeq(running, k + 1, Len(running))
           /\ now' = t
           /\ UNCHANGED <<variant, env>>

\* a request that sends one store call at most returns at once
Answer ==
    /\ Len(history) + Len(running) < MaxOverlapped
    /\ \E e \in ConcurrentEvents(variant), tick \in BOOLEAN :
          /\ Len(Handler(variant, e, env, table, now).calls) < 2
          /\ Handle(e, tick)

ConcurrentNext == Arrive \/ Resume \/ Answer

ConcurrentSpec == ActorsInit /\ [][ConcurrentNext]_vars

(***************************************************************************)
(* Reading the history                                                     *)
(***************************************************************************)
Handled == 1..Len(history)

\* the table the i-th request left
After(i) == IF i = Len(history) THEN table ELSE history[i + 1].before

Status(i) == history[i].response.statusCode

Did(i, operation) == Operation(history[i].op) = operation

Payload(i) == history[i].event.body.value

\* the path id of the i-th request (an item-level operation was invoked)
Id(i) == history[i].event.pathParameters["id"]

Sent(i, cmd) == \E n \in 1..Len(history[i].calls) : history[i].calls[n].cmd = cmd

\* the i-th request is directly followed by a GetByID of id
ThenGetByID(i, id) ==
    /\ i + 1 \in Handled
    /\ Did(i + 1, "GetByID")
    /\ Id(i + 1) = id

HasJsonBody(i) == history[i].event.body.kind = "json"

\* the entries of two tables agree outside the keys ks
SameExcept(t1, t2, ks) ==
    /\ (DOMAIN t1) \ ks = (DOMAIN t2) \ ks
    /\ \A k \in (DOMAIN t1) \ ks : t1[k] = t2[k]

(***************************************************************************)
(* C1                                                                      *)
(***************************************************************************)
ActorsRoutingTable ==
    {<<"GET", "/actors", "List">>,
     <<"GET", "/actors/{id}", "GetByID">>,
     <<"POST", "/actors", "Create">>,
     <<"PUT", "/actors/{id}", "Update">>,
     <<"DELETE", "/actors/{id}", "Delete">>}

\* the calls an operation may send for the i-th request, and no others
OwnCalls(i, operation) ==
    LET calls == history[i].calls
        get(k) == Call("Get", k)
    IN CASE operation = "List" -> calls = <<Call("Scan", "")>>
         [] operation = "GetByID" -> calls = <<get(Id(i))>>
         [] operation = "Create" ->
               \/ calls = <<>>
               \/ /\ Has(Payload(i), "id")
                  /\ calls \in {<<get(Payload(i)["id"])>>,
                                <<get(Payload(i)["id"]), Call("Put", Payload(i)["id"])>>}
         [] operation = "Update" ->
               calls \in {<<get(Id(i))>>, <<get(Id(i)), Call("Put", Id(i))>>}
         [] operation = "Delete" ->
               calls \in {<<get(Id(i))>>, <<get(Id(i)), Call("Delete", Id(i))>>}

\* the i-th request is on a row of the routing table, with an id on item routes
OnRoutingTable(i, row) ==
    /\ variant = "actors"
    /\ history[i].event.httpMethod = row[1]
    /\ history[i].event.resource = row[2]
    /\ row[2] = "/actors/{id}" => StrTruthy(history[i].event.pathParameters, "id")

\* exactly the row's operation was invoked, with its own store calls only
RoutedTo(i, row) ==
    /\ Did(i, row[3])
    /\ OwnCalls(i, row[3])

C2_PutIsHandled ==
    \A i \in Handled :
        /\ variant \in {"l1", "l2", "l3"}
        /\ history[i].event.httpMethod = "PUT"
        /\ history[i].event.resource = "/tvshows/{id}"
        /\ StrTruthy(history[i].event.pathParameters, "id")
        /\ Id(i) \in DOMAIN history[i].before
        /\ HasJsonBody(i)
        /\ Has(Payload(i), "title")
        => /\ Status(i) # 400
           /\ Id(i) \in DOMAIN After(i)
           /\ After(i)[Id(i)]["title"] = Payload(i)["title"]

(***************************************************************************)
(* C3                                                                      *)
(***************************************************************************)
\* the second mandatory field of a Create payload
Mandatory == IF variant = "actors" THEN "name" ELSE "title"

ValidPayload(p) == StrTruthy(p, "id") /\ StrTruthy(p, Mandatory)

\* requests i and i+1 are Create(E) twice, E valid and its id not stored before
CreateTwice(i) ==
    /\ i + 1 \in Handled
    /\ Did(i, "Create") /\ Did(i + 1, "Create")
    /\ ValidPayload(Payload(i))
    /\ Payload(i + 1) = Payload(i)
    /\ Payload(i)["id"] \notin DOMAIN history[i].before

\* C3: in every variant, Create(E) twice in a row on a table without E's id is
\* answered 201 and then 409, and the second leaves the entity as first written.
C3_CreateTwice ==
    \A i \in Handled :
        CreateTwice(i) =>
            /\ Status(i) = 201
            /\ Status(i + 1) = 409
            /\ After(i + 1) = After(i)

(***************************************************************************)
(* C4                                                                      *)
(***************************************************************************)
Updated(i) == Did(i, "Update") /\ Status(i) = 200

\* C4: in every variant with Update, a successful Update(id, payload) stores and
\* returns the stored entity merged with the payload: payload fields (other than
\* the identifier and the timestamps the handler sets) take the payload's value,
\* stored fields absent from the payload are kept.
C4_UpdateMerges ==
    \A i \in Handled :
        Updated(i) =>
            LET stored == history[i].before[Id(i)]
                written == After(i)[Id(i)]
                own == (DOMAIN Payload(i)) \ {"id", "createdAt", "updatedAt"}
                kept == (DOMAIN stored) \ ((DOMAIN Payload(i)) \cup {"updatedAt"})
            IN /\ history[i].response.body = Stringify(written)
               /\ \A f \in own : Has(written, f) /\ written[f] = Payload(i)[f]
               /\ \A f \in kept : Has(written, f) /\ written[f] = stored[f]

(***************************************************************************)
(* C5                                                                      *)
(***************************************************************************)
\* C5: in every variant with Update, a successful Update(id, payload) writes an
\* entity whose identifier is the path id and whose createdAt is that of the
\* entity read; the payload's identifier and createdAt are ignored and nothing
\* is written under another key.
C5_UpdateKeepsIdAndCreatedAt ==
    \A i \in Handled :
        Updated(i) =>
            LET stored == history[i].before[Id(i)]
                written == After(i)[Id(i)]
            IN /\ Id(i) \in DOMAIN After(i)
               /\ written["id"] = Id(i)
               /\ Has(written, "createdAt") = Has(stored, "createdAt")
               /\ Has(stored, "createdAt") => written["createdAt"] = stored["createdAt"]
               /\ SameExcept(history[i].before, After(i), {Id(i)})
               /\ history[i].calls = <<Call("Get", Id(i)), Call("Put", Id(i))>>

\* an update whose payload names another identifier and a createdAt succeeded
C5_Witness ==
    \E i \in Handled :
        /\ Updated(i)
        /\ Has(Payload(i), "id") /\ Payload(i)["id"] # Id(i)
        /\ Has(Payload(i), "createdAt")
        /\ Payload(i)["createdAt"] # history[i].before[Id(i)]["createdAt"]

(***************************************************************************)
(* C6                                                                      *)
(***************************************************************************)
\* C6: in every variant, Delete(id) of an id that is not stored is answered 404,
\* sends no delete call and leaves the table unchanged.
C6_DeleteAbsent ==
    \A i \in Handled :
        Did(i, "Delete") /\ Id(i) \notin DOMAIN history[i].before =>
            /\ Status(i) = 404
            /\ ~Sent(i, "Delete")
            /\ After(i) = history[i].before

(***************************************************************************)
(* C7                                                                      *)
(***************************************************************************)
\* C7: in every variant, Delete(id) of a stored id is answered 204 with an empty
\* body, removes exactly that entity, and a GetByID(id) right after is
\* answered 404.
C7_DeleteStored ==
    \A i \in Handled :
        Did(i, "Delete") /\ Id(i) \in DOMAIN history[i].before =>
            /\ Status(i) = 204
            /\ history[i].response.body = EmptyBody
            /\ After(i) = DeleteCommand(history[i].before, Id(i))
            /\ ThenGetByID(i, Id(i)) => Status(i + 1) = 404

(***************************************************************************)
(* C8                                                                      *)
(***************************************************************************)
\* C8: in every variant, a Create whose payload lacks the identifier or the
\* second mandatory field, or has either empty, is answered 400, sends no store
\* call and leaves the table unchanged.
C8_CreateValidates ==
    \A i \in Handled :
        Did(i, "Create") /\ HasJsonBody(i) /\ ~ValidPayload(Payload(i)) =>
            /\ Status(i) = 400
            /\ history[i].calls = <<>>
            /\ After(i) = history[i].before

(***************************************************************************)
(* C9                                                                      *)
(***************************************************************************)
\* the fields of an actor that the caller supplies
ActorFields == {"id", "name", "age", "nationality", "knownFor", "isActive"}

\* the i-th request is Create(E) in the actors handler, E valid and E.id fresh
FreshCreate(i) ==
    /\ variant = "actors"
    /\ Did(i, "Create")
    /\ ValidPayload(Payload(i))
    /\ Payload(i)["id"] \notin DOMAIN history[i].before

\* C9: in the actors handler, Create(E) for valid E with a fresh id is answered
\* 201 with the constructed entity, and a GetByID(E.id) right after is answered
\* 200 with an entity that has E's fields, createdAt = updatedAt, and timestamps
\* not earlier than the start of the Create.
C9_CreateThenGet ==
    \A i \in Handled :
        FreshCreate(i) =>
            LET E == Payload(i)
            IN /\ Status(i) = 201
               /\ E["id"] \in DOMAIN After(i)
               /\ history[i].response.body = Stringify(After(i)[E["id"]])
               /\ ThenGetByID(i, E["id"]) =>
                     /\ Status(i + 1) = 200
                     /\ history[i + 1].response.body.kind = "object"
                     /\ LET got == history[i + 1].response.body.value
                        IN /\ \A f \in (DOMAIN E) \cap ActorFields :
                                 Has(got, f) /\ got[f] = E[f]
                           /\ Has(got, "createdAt") /\ Has(got, "updatedAt")
                           /\ got["createdAt"] = got["updatedAt"]
                           /\ got["createdAt"] >= history[i].startedAt

\* a Create that took a tick of the clock, with all fields supplied, was read back
C9_Witness ==
    \E i \in Handled :
        /\ FreshCreate(i)
        /\ ThenGetByID(i, Payload(i)["id"])
        /\ Status(i + 1) = 200
        /\ ActorFields \subseteq DOMAIN Payload(i)
        /\ history[i + 1].response.body.value["createdAt"] > history[i].startedAt

(***************************************************************************)
(* C10                                                                     *)
(***************************************************************************)
\* the i-th request is Update(id, payload) for an id that is not stored
UpdateAbsent(i) == Did(i, "Update") /\ Id(i) \notin DOMAIN history[i].before

\* C10: in every variant with Update, Update(id, payload) of an id that is not
\* stored is answered 404, sends no put, and GetByID(id) is still answered 404.
C10_UpdateAbsent ==
    \A i \in Handled :
        UpdateAbsent(i) =>
            /\ Status(i) = 404
            /\ ~Sent(i, "Put")
            /\ After(i) = history[i].before
            /\ ThenGetByID(i, Id(i)) => Status(i + 1) = 404

\* an update of an absent id was followed by a GetByID of it, in either variant
C10_Witness ==
    \E i \in Handled :
        /\ UpdateAbsent(i)
        /\ Payload(i) # EmptyObj
        /\ ThenGetByID(i, Id(i))

(***************************************************************************)
(* C11                                                                     *)
(***************************************************************************)
\* requests 1..k are the first k of Create(E), GetByID(a1), Update(a1, U),
\* Delete(a1), GetByID(a1) in the actors handler, E valid with the fresh id a1
\* and U naming a name
ScriptRan(k) ==
    /\ variant = "actors"
    /\ k <= Len(history)
    /\ FreshCreate(1)
    /\ \A j \in 2..k :
          /\ StrTruthy(history[j].event.pathParameters, "id")
          /\ Id(j) = Payload(1)["id"]
          /\ Did(j, <<"Create", "GetByID", "Update", "Delete", "GetByID">>[j])
    /\ k >= 3 => StrTruthy(Payload(3), "name")

\* C11: in the actors handler the sequence Create, GetByID, Update, Delete,
\* GetByID on a fresh id, nothing in between, is answered 201, 200, 200, 204,
\* 404; the GetByID body is the created entity, the Update body has the
\* payload's name, the id and the createdAt of the Create, and the Delete body
\* is empty.
C11_Script ==
    \A k \in 1..5 :
        ScriptRan(k) =>
            LET created == history[1].response.body
                body == history[k].response.body
            IN /\ Status(k) = <<201, 200, 200, 204, 404>>[k]
               /\ k = 1 => created.kind = "object" /\ created.value["id"] = Payload(1)["id"]
               /\ k = 2 => body = created
               /\ k = 3 => /\ body.kind = "object"
                           /\ body.value["name"] = Payload(3)["name"]
                           /\ body.value["id"] = Payload(1)["id"]
                           /\ body.value["createdAt"] = created.value["createdAt"]
               /\ k = 4 => body = EmptyBody

\* the whole script ran, the clock ticking between the Create and the Update
C11_Witness ==
    /\ ScriptRan(5)
    /\ Len(history) = 5
    /\ history[3].response.body.value["updatedAt"]
           > history[1].response.body.value["createdAt"]

(***************************************************************************)
(* C12                                                                     *)
(***************************************************************************)
\* the i-th request is GetByID(id), id a non-empty string
GetByIDOf(i) ==
    /\ Did(i, "GetByID")
    /\ StrTruthy(history[i].event.pathParameters, "id")

\* body is { message } whose text says not found
IsNotFoundMessage(body) ==
    /\ body.kind = "object"
    /\ DOMAIN body.value = {"message"}
    /\ body.value["message"][Len(body.value["message"])]
          \in {" not found", "TV show not found", "TV Show not found"}

\* C12: in every variant GetByID(id) is answered 404 with a not-found message
\* when no entity is stored under id, and 200 with exactly the stored entity
\* when one is; the table is left as it was.
C12_GetByID ==
    \A i \in Handled :
        GetByIDOf(i) =>
            /\ After(i) = history[i].before
            /\ history[i].calls = <<Call("Get", Id(i))>>
            /\ IF Id(i) \in DOMAIN history[i].before
               THEN /\ Status(i) = 200
                    /\ history[i].response.body = Stringify(history[i].before[Id(i)])
               ELSE /\ Status(i) = 404
                    /\ IsNotFoundMessage(history[i].response.body)

\* a stored entity and an absent one were both read
C12_Witness ==
    \E i, j \in Handled :
        /\ GetByIDOf(i) /\ Id(i) \in DOMAIN history[i].before /\ Status(i) = 200
        /\ GetByIDOf(j) /\ Id(j) \notin DOMAIN history[j].before /\ Status(j) = 404

(***************************************************************************)
(* C13                                                                     *)
(***************************************************************************)
\* C13: in every variant List is answered 200 with a body that holds all the
\* entities of the table together with a count, the count being the number of
\* entities returned (an empty list and 0 on an empty table).
C13_ListWithCount ==
    \A i \in Handled :
        Did(i, "List") =>
            LET body == history[i].response.body
                stored == {history[i].before[k] : k \in DOMAIN history[i].before}
            IN /\ Status(i) = 200
               /\ body.kind = "object"
               /\ Has(body.value, "count")
               /\ \E f \in (DOMAIN body.value) \ {"count"} :
                     /\ body.value[f] = stored
                     /\ body.value["count"] = Cardinality(body.value[f])

(***************************************************************************)
(* C14                                                                     *)
(***************************************************************************)
\* the i-th request, to the actors handler, is on no row of the routing table
Unmatched(i) ==
    /\ variant = "actors"
    /\ \A row \in ActorsRoutingTable :
          ~(history[i].event.httpMethod = row[1] /\ history[i].event.resource = row[2])

\* the message of the i-th response has word among its parts
Names(i, word) ==
    LET body == history[i].response.body
    IN /\ body.kind = "object"
       /\ Has(body.value, "message")
       /\ \E n \in 1..Len(body.value["message"]) : body.value["message"][n] = word

\* C14 as stated: in the actors handler a request on no row of the routing
\* table is answered 400 with a message naming its method and its path, and
\* sends no store call.
C14_UnmatchedAsStated ==
    \A i \in Handled :
        Unmatched(i) =>
            /\ Status(i) = 400
            /\ history[i].calls = <<>>
            /\ Names(i, history[i].event.httpMethod)
            /\ Names(i, PathString(history[i].event.path))

\* C14 amended: the message names the method and the resource, the route
\* template the request matched in API Gateway, which is the path only on
\* routes without a path parameter.
C14_Unmatched ==
    \A i \in Handled :
        Unmatched(i) =>
            /\ Status(i) = 400
            /\ history[i].calls = <<>>
            /\ After(i) = history[i].before
            /\ history[i].op = "none"
            /\ Names(i, history[i].event.httpMethod)
            /\ Names(i, history[i].event.resource)

\* an unmatched request whose path is not its resource, and a PUT on /actors
C14_Witness ==
    \E i, j \in Handled :
        /\ Unmatched(i)
        /\ history[i].event.resource # PathString(history[i].event.path)
        /\ Unmatched(j)
        /\ history[j].event.httpMethod = "PUT"
        /\ history[j].event.resource = "/actors"

(***************************************************************************)
(* C15                                                                     *)
(***************************************************************************)
\* C15: in every variant, when TABLE_NAME is absent every request, whatever its
\* method and path, is answered 500 before any routing decision and without a
\* store call.
C15_Unconfigured ==
    \A i \in Handled :
        ~StrTruthy(env, "TABLE_NAME") =>
            /\ Status(i) = 500
            /\ history[i].op = "none"
            /\ history[i].calls = <<>>

(***************************************************************************)
(* C16                                                                     *)
(***************************************************************************)
\* the i-th request is a POST of the collection, or a PUT of an item with its
\* id in a variant that has an update, and its body is not well-formed JSON
MalformedWrite(i) ==
    LET event == history[i].event
    IN /\ event.body.kind = "malformed"
       /\ \/ event.httpMethod = "POST" /\ event.resource \in {"/actors", "/tvshows"}
          \/ /\ event.httpMethod = "PUT"
             /\ event.resource \in {"/actors/{id}", "/tvshows/{id}"}
             /\ StrTruthy(event.pathParameters, "id")
             /\ variant \in {"actors", "ts"}

\* C16: in every variant a POST or PUT on a matched route whose body is present
\* but not well-formed JSON is answered 400, not 500, and sends no store call.
C16_MalformedBody ==
    \A i \in Handled :
        MalformedWrite(i) =>
            /\ Status(i) = 400
            /\ history[i].calls = <<>>

(***************************************************************************)
(* C17                                                                     *)
(***************************************************************************)
\* a store call of the i-th request faulted
Faulted(i) == history[i].fault.at > 0

\* C17: in every variant and for every operation, when a store call faults the
\* handler returns a 500 response, sends no further call and does not retry,
\* and the table holds what it held before the faulting call.
C17_StoreFault ==
    \A i \in Handled :
        Faulted(i) =>
            /\ Status(i) = 500
            /\ Len(history[i].calls) = history[i].fault.at
            /\ After(i) = history[i].before

\* the put of an update and the delete of a delete faulted after their get,
\* and so did a scan
C17_Witness ==
    \E i, j \in Handled :
        /\ Faulted(i) /\ history[i].fault.at = 2
        /\ history[i].calls[2].cmd \in {"Put", "Delete"}
        /\ Faulted(j) /\ history[j].fault.at = 1

(***************************************************************************)
(* C18                                                                     *)
(***************************************************************************)
\* C18: in every variant the body of a 500 response is a fixed message chosen
\* by the code path alone: two requests that differ only in the fault the store
\* raised get the same response, and the fault's message is not in the body.
C18_GenericFault ==
    /\ \A i, j \in Handled :
          /\ Faulted(i) /\ Faulted(j)
          /\ history[i].event = history[j].event
          /\ history[i].before = history[j].before
          /\ history[i].fault.at = history[j].fault.at
          => history[i].response = history[j].response
    /\ \A i \in Handled :
          Faulted(i) /\ Status(i) = 500 =>
              LET body == history[i].response.body.value
              IN /\ ~Names(i, history[i].fault.message)
                 /\ Has(body, "error") => body["error"] # history[i].fault.message

(***************************************************************************)
(* C19                                                                     *)
(***************************************************************************)
\* C19: in every variant every response carries Content-Type: application/json
\* and Access-Control-Allow-Origin: *.
C19_Headers ==
    \A i \in Handled :
        \A h \in DOMAIN JsonCorsHeaders :
            /\ Has(history[i].response.headers, h)
            /\ history[i].response.headers[h] = JsonCorsHeaders[h]

(***************************************************************************)
(* C20                                                                     *)
(***************************************************************************)
\* the i-th request is a GET, PUT or DELETE on the item route and its path
\* parameter id is absent or empty
ItemRequestWithoutId(i) ==
    LET event == history[i].event
    IN /\ event.httpMethod \in {"GET", "PUT", "DELETE"}
       /\ event.resource \in {"/actors/{id}", "/tvshows/{id}"}
       /\ ~StrTruthy(event.pathParameters, "id")

\* C20: in every variant a request on an item-level route whose path parameter
\* id is absent or empty is answered 400 before the operation runs, and sends
\* no store call.
C20_MissingId ==
    \A i \in Handled :
        ItemRequestWithoutId(i) =>
            /\ Status(i) = 400
            /\ history[i].op = "none"
            /\ history[i].calls = <<>>

(***************************************************************************)
(* C21                                                                     *)
(***************************************************************************)
Collection == IF variant = "actors" THEN "actors" ELSE "tvshows"

\* the path of the i-th request is the collection or the collection and an id
HasRoutedShape(i) ==
    LET path == history[i].event.path
    IN /\ Len(path) \in {1, 2}
       /\ path[1] = Collection

\* C21: in every variant a request whose path is neither the collection nor
\* collection/{id} is answered 400 whatever its method, and no operation is
\* invoked for it.
C21_OnlyTwoShapes ==
    \A i \in Handled :
        ~HasRoutedShape(i) =>
            /\ Status(i) = 400
            /\ history[i].op = "none"
            /\ history[i].calls = <<>>

(***************************************************************************)
(* C22                                                                     *)
(***************************************************************************)
Succeeded(i) == Status(i) \in 200..299

\* C22: in every variant List and GetByID leave the table as it was, and a
\* successful Create, Update or Delete changes the entry of one identifier,
\* the payload's for Create and the path id for Update and Delete, leaving
\* every other entry as it was.
C22_Frame ==
    \A i \in Handled :
        /\ (Did(i, "List") \/ Did(i, "GetByID")) => After(i) = history[i].before
        /\ (Did(i, "Create") /\ Succeeded(i)) =>
              /\ Has(Payload(i), "id")
              /\ SameExcept(history[i].before, After(i), {Payload(i)["id"]})
        /\ ((Did(i, "Update") \/ Did(i, "Delete")) /\ Succeeded(i)) =>
              SameExcept(history[i].before, After(i), {Id(i)})

(***************************************************************************)
(* C23                                                                     *)
(***************************************************************************)
\* the clock reading when the i-th request returned
EndedAt(i) == IF i = Len(history) THEN now ELSE history[i + 1].startedAt

\* C23: in the actors handler, however many Updates follow the Create of an
\* entity, with whatever payloads, the stored createdAt is the one Create
\* wrote, and after each successful Update the stored updatedAt is the clock
\* reading taken during that Update, not earlier than its start.
C23_Stamps ==
    \A i \in Handled :
        (i > 1 /\ Status(1) = 201 /\ \A j \in 2..i : Did(j, "Update") /\ Id(j) = ScriptId) =>
            LET created == history[1].response.body.value
                stored == After(i)[ScriptId]
            IN /\ ScriptId \in DOMAIN After(i)
               /\ stored["createdAt"] = created["createdAt"]
               /\ Updated(i) => /\ stored["updatedAt"] = EndedAt(i)
                                /\ stored["updatedAt"] >= history[i].startedAt

\* two updates in a row after two ticks of the clock, one of them with a
\* payload that carries its own createdAt and updatedAt
C23_Witness ==
    /\ Len(history) >= 3
    /\ Status(1) = 201
    /\ Updated(2) /\ Updated(3)
    /\ history[3].startedAt > history[1].startedAt
    /\ \E i \in {2, 3} : Has(Payload(i), "createdAt") /\ Has(Payload(i), "updatedAt")
    /\ table[ScriptId]["updatedAt"] > table[ScriptId]["createdAt"]

(***************************************************************************)
(* C24                                                                     *)
(***************************************************************************)
\* the entity the i-th response carries
Returned(i) == history[i].response.body.value

\* the i-th request is a Create whose get found no entity
CreateSawNone(i) ==
    /\ Did(i, "Create")
    /\ Sent(i, "Get")
    /\ Payload(i)["id"] \notin DOMAIN history[i].before

\* C24: in the actors handler Create's get and put are two store calls and
\* the put carries no condition: whenever the gets of two Creates of one
\* identifier both found no entity, both are answered 201 and, the later
\* put being the last write, the table holds the entity of the later put.
C24_CreateRace ==
    \A i, j \in Handled :
        (i < j /\ CreateSawNone(i) /\ CreateSawNone(j)
               /\ Payload(i)["id"] = Payload(j)["id"]) =>
            /\ Status(i) = 201 /\ Status(j) = 201
            /\ Sent(i, "Put") /\ Sent(j, "Put")
            /\ j = Len(history) => table[Payload(j)["id"]] = Returned(j)

\* two Creates of one identifier with different payloads overlapped: both
\* were answered 201 and the entity of the first is gone
C24_Witness ==
    \E i \in Handled :
        /\ i + 1 = Len(history)
        /\ CreateSawNone(i) /\ CreateSawNone(i + 1)
        /\ Payload(i)["id"] = Payload(i + 1)["id"]
        /\ Status(i) = 201 /\ Status(i + 1) = 201
        /\ Returned(i)["name"] # Returned(i + 1)["name"]
        /\ table[Payload(i)["id"]] = Returned(i + 1)
        /\ table[Payload(i)["id"]] # Returned(i)

(***************************************************************************)
(* C25                                                                     *)
(***************************************************************************)
\* the fields the payload of the i-th request, an Update, may change
Changes(i) == (DOMAIN Payload(i)) \ {"id", "createdAt", "updatedAt"}

\* the i-th and the j-th request are Updates of one entity that read the same
\* stored version of it
UpdatesOfOneVersion(i, j) ==
    /\ i < j
    /\ Updated(i) /\ Updated(j)
    /\ Id(i) = Id(j)
    /\ history[i].before[Id(i)] = history[j].before[Id(j)]

\* C25: in the actors handler, whenever two Updates of one entity read the
\* same stored version, both are answered 200 and, the later put being the
\* last write, the stored entity is the one the later Update returned: a
\* field only the earlier Update changed has the value of the version read.
C25_LostUpdate ==
    \A i, j \in Handled :
        (UpdatesOfOneVersion(i, j) /\ j = Len(history)) =>
            LET read == history[j].before[Id(j)]
                stored == table[Id(j)]
            IN /\ stored = Returned(j)
               /\ \A f \in Changes(i) \ Changes(j) :
                     /\ Has(stored, f) = Has(read, f)
                     /\ Has(read, f) => stored[f] = read[f]

\* two Updates changing different fields overlapped: both were answered 200
\* with their change, and the stored entity has the later change only
C25_Witness ==
    \E i \in Handled :
        /\ i + 1 = Len(history)
        /\ UpdatesOfOneVersion(i, i + 1)
        /\ Changes(i) # {} /\ Changes(i + 1) # {}
        /\ Changes(i) \cap Changes(i + 1) = {}
        /\ \A f \in Changes(i) : /\ Returned(i)[f] = Payload(i)[f]
                                 /\ Has(table[Id(i)], f) => table[Id(i)][f] # Payload(i)[f]
        /\ \A f \in Changes(i + 1) : table[Id(i)][f] = Payload(i + 1)[f]

(***************************************************************************)
(* C27                                                                     *)
(***************************************************************************)
Deleted(i) == Did(i, "Delete") /\ Status(i) = 204

\* the i-th request sent a put or a delete
Wrote(i) == Sent(i, "Put") \/ Sent(i, "Delete")

\* C27: in the actors handler, an Update that is answered 200 after a Delete
\* of the same id was answered 204 has put the entity back: a GetByID of the
\* id that follows, with no write in between, is answered 200 with the
\* entity the Update returned.
C27_DeleteUndone ==
    \A i, j, k \in Handled :
        (/\ i < j /\ j < k
         /\ Deleted(i) /\ Updated(j) /\ Did(k, "GetByID")
         /\ Id(i) = Id(j) /\ Id(j) = Id(k)
         /\ \A m \in (j + 1)..(k - 1) : ~Wrote(m)) =>
            /\ Status(k) = 200
            /\ Returned(k) = Returned(j)

\* a Delete answered 204, then an Update of the same id answered 200 whose
\* get was served before the delete, no Create in between, and then a
\* GetByID of the id answered 200
C27_Witness ==
    /\ Len(history) = 3
    /\ Deleted(1) /\ Updated(2) /\ Did(3, "GetByID")
    /\ Id(1) = Id(2) /\ Id(2) = Id(3)
    /\ history[1].before[Id(1)] = history[2].before[Id(2)]
    /\ Status(3) = 200
    /\ \A m \in Handled : ~Did(m, "Create")

(***************************************************************************)
(* C30                                                                     *)
(***************************************************************************)
\* C30: in the actors handler, the clock never going backwards, every stored
\* entity has createdAt <= updatedAt, however Create, Update and Delete
\* requests interleave and whatever createdAt or updatedAt their payloads
\* carry.
C30_CreatedBeforeUpdated ==
    \A id \in DOMAIN table :
        /\ Has(table[id], "createdAt") /\ Has(table[id], "updatedAt")
        /\ table[id]["createdAt"] <= table[id]["updatedAt"]

\* an Update whose payload carries createdAt and updatedAt overlapped with
\* another write and was answered 200 after the clock had ticked
C30_Witness ==
    \E i, j \in Handled :
        /\ i # j
        /\ Updated(i)
        /\ Has(Payload(i), "createdAt") /\ Has(Payload(i), "updatedAt")
        /\ Wrote(j)
        /\ history[j].before = history[i].before
        /\ i = Len(history)
        /\ table[Id(i)]["createdAt"] < table[Id(i)]["updatedAt"]
        /\ table[Id(i)]["updatedAt"] # Payload(i)["updatedAt"]

(***************************************************************************)
(* C28                                                                     *)
(***************************************************************************)
\* C28: in the actors handler every stored entity has the key it is stored
\* under as its id, a non-empty id and name, and createdAt and updatedAt,
\* in every state requests of any kind and payload lead to from an empty
\* table.
C28_StoredEntities ==
    \A id \in DOMAIN table :
        /\ StrTruthy(table[id], "id")
        /\ table[id]["id"] = id
        /\ StrTruthy(table[id], "name")
        /\ Has(table[id], "createdAt")
        /\ Has(table[id], "updatedAt")

(***************************************************************************)
(* C26                                                                     *)
(***************************************************************************)
Created(i) == Did(i, "Create") /\ Status(i) = 201

\* C26: in the actors handler Create stores the payload's knownFor, or the
\* empty list when the payload has none; the payload's isActive, be it
\* false, or true when the payload has none; and age and nationality as the
\* payload has them, absent when it has none.
C26_CreateDefaults ==
    \A i \in Handled :
        Created(i) =>
            LET actor == Payload(i)
                stored == After(i)[actor["id"]]
            IN /\ stored["knownFor"] = IF Has(actor, "knownFor") THEN actor["knownFor"] ELSE <<>>
               /\ stored["isActive"] = IF Has(actor, "isActive") THEN actor["isActive"] ELSE TRUE
               /\ \A f \in {"age", "nationality"} :
                     /\ Has(stored, f) = Has(actor, f)
                     /\ Has(actor, f) => stored[f] = actor[f]

\* one Create with isActive false, knownFor, age and nationality supplied,
\* and one with none of them
C26_Witness ==
    \E i, j \in Handled :
        /\ Created(i) /\ Created(j)
        /\ Has(Payload(i), "isActive") /\ Payload(i)["isActive"] = FALSE
        /\ Has(Payload(i), "knownFor") /\ Payload(i)["knownFor"] # <<>>
        /\ Has(Payload(i), "age") /\ Has(Payload(i), "nationality")
        /\ (DOMAIN Payload(j)) \cap {"isActive", "knownFor", "age", "nationality"} = {}
        /\ table[Payload(j)["id"]]["isActive"] = TRUE

(***************************************************************************)
(* C29                                                                     *)
(***************************************************************************)
\* C29: in the actors handler a Create answered 409 has sent one store call,
\* the get of the payload's identifier, and no put: the table, and with it
\* the entity stored under that identifier, is as it was.
C29_ConflictWritesNothing ==
    \A i \in Handled :
        (Did(i, "Create") /\ Status(i) = 409) =>
            /\ history[i].calls = <<Call("Get", Payload(i)["id"])>>
            /\ Payload(i)["id"] \in DOMAIN history[i].before
            /\ After(i) = history[i].before

\* a Create answered 409 after the clock had ticked, its payload differing
\* from the entity stored
C29_Witness ==
    \E i \in Handled :
        /\ Did(i, "Create") /\ Status(i) = 409
        /\ EndedAt(i) > history[i].before[Payload(i)["id"]]["updatedAt"]
        /\ Has(Payload(i), "nationality")
        /\ ~Has(After(i)[Payload(i)["id"]], "nationality")

=============================================================================
